---- MODULE Spec2Model ----
(***************************************************************************)
(* SparrowAI, src-tauri/src/chat.rs: the tool-augmented streaming          *)
(* completion turn (chat_with_loaded_model_streaming and                   *)
(* continue_conversation_after_tools) with its tag scanner.                *)
(*                                                                         *)
(* Text is a sequence of one-character strings, so that find, rfind and    *)
(* the slices of the scanner work on positions as the Rust code does.      *)
(* Positions are 1-based here and 0-based in the source.                   *)
(***************************************************************************)
EXTENDS Integers, Sequences, FiniteSets, TLC

(***************************************************************************)
(* Text literals                                                           *)
(***************************************************************************)
\* Option<T>
NoneV == [some |-> FALSE]
Some(x) == [some |-> TRUE, v |-> x]

OpenTag == <<"<","t","o","o","l","_","c","a","l","l",">">>
CloseTag == <<"<","/","t","o","o","l","_","c","a","l","l",">">>
RespOpenTag == <<"<","t","o","o","l","_","r","e","s","p","o","n","s","e",">">>
RespCloseTag == <<"<","/","t","o","o","l","_","r","e","s","p","o","n","s","e",">">>
NL == <<"\n">>
Quote == "\""

\* the two slice offsets of extract_all_tool_calls_from_xml
OpenTagLen == 11
CloseTagLen == 12

(***************************************************************************)
(* str::find, str::rfind, str::contains, str::trim                         *)
(***************************************************************************)
MatchAt(text, pat, i) ==
    /\ i >= 1
    /\ i + Len(pat) - 1 <= Len(text)
    /\ \A k \in 1..Len(pat) : text[i + k - 1] = pat[k]

\* text[from..].find(pat): the absolute position of the first match at or
\* after from, 0 when there is none (Rust's None)
RECURSIVE FirstMatch(_, _, _, _)
\* the first match position in lo..hi, 0 when there is none
FirstMatch(text, pat, lo, hi) ==
    IF lo > hi THEN 0
    ELSE IF lo = hi THEN (IF MatchAt(text, pat, lo) THEN lo ELSE 0)
    ELSE LET mid == (lo + hi) \div 2
             left == FirstMatch(text, pat, lo, mid)
         IN  IF left # 0 THEN left ELSE FirstMatch(text, pat, mid + 1, hi)

RECURSIVE LastMatch(_, _, _, _)
\* the last match position in lo..hi, 0 when there is none
LastMatch(text, pat, lo, hi) ==
    IF lo > hi THEN 0
    ELSE IF lo = hi THEN (IF MatchAt(text, pat, lo) THEN lo ELSE 0)
    ELSE LET mid == (lo + hi) \div 2
             right == LastMatch(text, pat, mid + 1, hi)
         IN  IF right # 0 THEN right ELSE LastMatch(text, pat, lo, mid)

FindFrom(text, pat, from) == FirstMatch(text, pat, from, Len(text) - Len(pat) + 1)

\* text.rfind(pat): the position of the last match, 0 when there is none
RFind(text, pat) == LastMatch(text, pat, 1, Len(text) - Len(pat) + 1)

Contains(text, pat) == FindFrom(text, pat, 1) # 0

IsWhitespace(c) == c \in {" ", "\n", "\t", "\r"}

\* continued_response.trim().is_empty()
TrimIsEmpty(text) == \A i \in 1..Len(text) : IsWhitespace(text[i])

IsPrefix(p, s) == Len(p) <= Len(s) /\ SubSeq(s, 1, Len(p)) = p

(***************************************************************************)
(* serde_json on the JSON subset the model's texts use: objects, strings   *)
(* without escapes, null and unsigned integers, with whitespace between    *)
(* tokens.  A value is a record: [t |-> "null"], [t |-> "str", s |-> text],*)
(* [t |-> "num", s |-> digits], [t |-> "obj", m |-> members], where        *)
(* members is a sequence of [k |-> key, v |-> value] sorted by key with no *)
(* key twice (serde_json::Map is a BTreeMap: the crate's default).         *)
(***************************************************************************)
Digits == {"0", "1", "2", "3", "4", "5", "6", "7", "8", "9"}

\* byte order of the characters object keys are made of
CharCode(c) ==
    CASE c = "a" -> 97 [] c = "b" -> 98 [] c = "c" -> 99 [] c = "d" -> 100
      [] c = "e" -> 101 [] c = "g" -> 103 [] c = "m" -> 109 [] c = "n" -> 110
      [] c = "r" -> 114 [] c = "s" -> 115 [] c = "t" -> 116 [] c = "u" -> 117
      [] c = "v" -> 118
      [] OTHER -> 0

RECURSIVE KeyLess(_, _)
KeyLess(a, b) ==
    IF b = <<>> THEN FALSE
    ELSE IF a = <<>> THEN TRUE
    ELSE IF CharCode(Head(a)) < CharCode(Head(b)) THEN TRUE
    ELSE IF CharCode(Head(a)) > CharCode(Head(b)) THEN FALSE
    ELSE KeyLess(Tail(a), Tail(b))

\* Map::insert: a later duplicate key replaces the earlier value
RECURSIVE MapInsert(_, _, _)
MapInsert(m, key, val) ==
    IF m = <<>> THEN <<[k |-> key, v |-> val]>>
    ELSE IF Head(m).k = key THEN <<[k |-> key, v |-> val]>> \o Tail(m)
    ELSE IF KeyLess(key, Head(m).k) THEN <<[k |-> key, v |-> val]>> \o m
    ELSE <<Head(m)>> \o MapInsert(Tail(m), key, val)

\* Value::get(key) on an object: the member's value, Absent when there is none
Absent == [t |-> "absent"]

RECURSIVE MapGet(_, _)
MapGet(m, key) ==
    IF m = <<>> THEN Absent
    ELSE IF Head(m).k = key THEN Head(m).v
    ELSE MapGet(Tail(m), key)

RECURSIVE SkipWs(_, _)
SkipWs(text, i) ==
    IF i <= Len(text) /\ IsWhitespace(text[i]) THEN SkipWs(text, i + 1) ELSE i

RECURSIVE SkipDigits(_, _)
SkipDigits(text, i) ==
    IF i <= Len(text) /\ text[i] \in Digits THEN SkipDigits(text, i + 1) ELSE i

ParseFail == [ok |-> FALSE]

\* a string literal starting at the quote at i; escapes are outside the subset
ParseString(text, i) ==
    LET j == FindFrom(text, <<Quote>>, i + 1)
    IN  IF i > Len(text) \/ text[i] # Quote \/ j = 0 THEN ParseFail
        ELSE IF \E k \in (i + 1)..(j - 1) : text[k] = "\\" THEN ParseFail
        ELSE [ok |-> TRUE, val |-> SubSeq(text, i + 1, j - 1), next |-> j + 1]

RECURSIVE ParseValue(_, _), ParseMembers(_, _, _)
\* one JSON value starting at or after i: [ok, val, next]
ParseValue(text, i0) ==
    LET i == SkipWs(text, i0)
    IN  IF i > Len(text) THEN ParseFail
        ELSE IF text[i] = "{" THEN
            LET j == SkipWs(text, i + 1)
            IN  IF j <= Len(text) /\ text[j] = "}"
                THEN [ok |-> TRUE, val |-> [t |-> "obj", m |-> <<>>], next |-> j + 1]
                ELSE ParseMembers(text, j, <<>>)
        ELSE IF text[i] = Quote THEN
            LET s == ParseString(text, i)
            IN  IF s.ok
                THEN [ok |-> TRUE, val |-> [t |-> "str", s |-> s.val], next |-> s.next]
                ELSE ParseFail
        ELSE IF MatchAt(text, <<"n","u","l","l">>, i) THEN
            [ok |-> TRUE, val |-> [t |-> "null"], next |-> i + 4]
        ELSE IF text[i] \in Digits THEN
            LET j == SkipDigits(text, i)
            IN  IF text[i] = "0" /\ j > i + 1 THEN ParseFail
                ELSE [ok |-> TRUE, val |-> [t |-> "num", s |-> SubSeq(text, i, j - 1)],
                      next |-> j]
        ELSE ParseFail

\* the members of an object after its brace, up to and including the closing
\* brace; m holds the members read so far
ParseMembers(text, i0, m) ==
    LET key == ParseString(text, SkipWs(text, i0))
    IN  IF ~key.ok THEN ParseFail
        ELSE
            LET c == SkipWs(text, key.next)
            IN  IF c > Len(text) \/ text[c] # ":" THEN ParseFail
                ELSE
                    LET v == ParseValue(text, c + 1)
                    IN  IF ~v.ok THEN ParseFail
                        ELSE
                            LET e == SkipWs(text, v.next)
                                m2 == MapInsert(m, key.val, v.val)
                            IN  IF e > Len(text) THEN ParseFail
                                ELSE IF text[e] = "}" THEN
                                    [ok |-> TRUE, val |-> [t |-> "obj", m |-> m2],
                                     next |-> e + 1]
                                ELSE IF text[e] = "," THEN ParseMembers(text, e + 1, m2)
                                ELSE ParseFail

\* serde_json::from_str::<Value>: one value and nothing but whitespace after
FromStr(text) ==
    LET r == ParseValue(text, 1)
    IN  IF r.ok /\ SkipWs(text, r.next) > Len(text)
        THEN [ok |-> TRUE, val |-> r.val]
        ELSE ParseFail

RECURSIVE ToStringValue(_), ToStringMembers(_)
\* serde_json::to_string: compact, members in map order
ToStringValue(v) ==
    CASE v.t = "null" -> <<"n","u","l","l">>
      [] v.t = "str" -> <<Quote>> \o v.s \o <<Quote>>
      [] v.t = "num" -> v.s
      [] v.t = "obj" -> <<"{">> \o ToStringMembers(v.m) \o <<"}">>

ToStringMembers(m) ==
    IF m = <<>> THEN <<>>
    ELSE <<Quote>> \o Head(m).k \o <<Quote, ":">> \o ToStringValue(Head(m).v)
         \o (IF Len(m) > 1 THEN <<",">> \o ToStringMembers(Tail(m)) ELSE <<>>)

\* mutant: the map is passed on as it was parsed
RetainAll(m) == m

\* map.retain(|_k, v| !v.is_null())
RECURSIVE RetainNonNull(_)
RetainNonNull(m) ==
    IF m = <<>> THEN <<>>
    ELSE IF Head(m).v.t = "null" THEN RetainNonNull(Tail(m))
    ELSE <<Head(m)>> \o RetainNonNull(Tail(m))

(***************************************************************************)
(* The tag scanner                                                         *)
(***************************************************************************)
NameKey == <<"n","a","m","e">>
ArgumentsKey == <<"a","r","g","u","m","e","n","t","s">>

\* the body of the scanner's loop for the region whose inner text is content:
\* the (name, arguments JSON) pair it pushes, or nothing
ParseToolCall(content) ==
    LET parsed == FromStr(content)
    IN  IF ~parsed.ok \/ parsed.val.t # "obj" THEN <<>>
        ELSE
            LET name == MapGet(parsed.val.m, NameKey)
                args == MapGet(parsed.val.m, ArgumentsKey)
            IN  IF name.t = "str" /\ args.t = "obj"
                THEN <<[fn_name |-> name.s, fn_args |-> ToStringValue(args)]>>
                ELSE <<>>

\* mutant: the scan gives up at the first region that yields no call
RECURSIVE ExtractStopAtBad(_, _)
ExtractStopAtBad(text, search_start) ==
    LET actual_start == FindFrom(text, OpenTag, search_start)
        actual_end == FindFrom(text, CloseTag, actual_start)
        call == ParseToolCall(SubSeq(text, actual_start + OpenTagLen, actual_end - 1))
    IN  IF actual_start = 0 THEN <<>>
        ELSE IF actual_end = 0 THEN <<>>
        ELSE IF call = <<>> THEN <<>>
        ELSE call \o ExtractStopAtBad(text, actual_end + CloseTagLen)

RECURSIVE ExtractFrom(_, _)
ExtractFrom(text, search_start) ==
    LET actual_start == FindFrom(text, OpenTag, search_start)
        actual_end == FindFrom(text, CloseTag, actual_start)
    IN  IF actual_start = 0 THEN <<>>
        ELSE IF actual_end = 0 THEN <<>>
        ELSE ParseToolCall(SubSeq(text, actual_start + OpenTagLen, actual_end - 1))
             \o ExtractFrom(text, actual_end + CloseTagLen)

RECURSIVE Reverse(_)
Reverse(q) == IF q = <<>> THEN <<>> ELSE Append(Reverse(Tail(q)), Head(q))

\* mutant: the calls come out last block first
ExtractLastFirst(text) == Reverse(ExtractFrom(text, 1))

extract_all_tool_calls_from_xml(text) == ExtractFrom(text, 1)

\* mutant: the first opening tag is looked at, not the last
HasIncompleteFirstOpen(text) ==
    LET start == FindFrom(text, OpenTag, 1)
    IN  IF start # 0
        THEN IF FindFrom(text, CloseTag, start) # 0 THEN FALSE ELSE TRUE
        ELSE FALSE

has_incomplete_tool_call(text) ==
    LET start == RFind(text, OpenTag)
    IN  IF start # 0
        THEN IF FindFrom(text, CloseTag, start) # 0 THEN FALSE ELSE TRUE
        ELSE FALSE

\* mutant: continue only when a tool_response holds a JSON object
CheckJsonResponse(text) == Contains(text, RespOpenTag \o NL \o <<"{">>)

check_if_continuation_needed(text) == Contains(text, RespOpenTag)

(***************************************************************************)
(* The texts of the model: what the backend, the tools and the transport   *)
(* can deliver                                                             *)
(***************************************************************************)
TxtHi == <<"h","i">>
TxtWs == <<" ","\n">>
JsonT == <<"{","\"","n","a","m","e","\"",":","\"","t","\"",",","\"","a","r","g","u","m","e","n","t","s","\"",":","{","\"","b","\"",":","1","}","}">>
JsonU1 == <<"{","\"","n","a","m","e","\"",":","\"","t","\"",",">>
JsonU2 == <<"\"","a","r","g","u","m","e","n","t","s","\"",":","{","\"","a","\"",":","n","u","l","l",",","\"","b","\"",":","1","}","}">>
JsonV == <<"{","\"","n","a","m","e","\"",":","\"","v","\"",",","\"","a","r","g","u","m","e","n","t","s","\"",":","{","}","}">>
JsonBad == <<"{","\"","n","a","m","e","\"",":","\"","t","\"">>
CallT == OpenTag \o JsonT \o CloseTag
CallU1 == OpenTag \o JsonU1
CallU2 == JsonU2 \o CloseTag
CallBad == OpenTag \o JsonBad \o CloseTag
\* closed blocks whose JSON parses but has no arguments, or a name that is no
\* string
JsonNoArgs == <<"{","\"","n","a","m","e","\"",":","\"","t","\"","}">>
JsonNumName == <<"{","\"","n","a","m","e","\"",":","1",",","\"","a","r","g","u","m","e","n","t","s","\"",":","{","}","}">>
CallNoArgs == OpenTag \o JsonNoArgs \o CloseTag
CallNumName == OpenTag \o JsonNumName \o CloseTag

\* a StreamChunk: one response with one choice
Chunk(content, finish) == [content |-> content, finish |-> finish]

\* plain text; the first part of a call to t with a null argument; the rest of
\* that call followed by a whole call to t without the null argument; a closed
\* block that is no JSON; the finish chunk
PrimaryChunks ==
    { Chunk(Some(TxtHi), FALSE), Chunk(Some(CallU1), FALSE),
      Chunk(Some(CallU2 \o CallT), FALSE), Chunk(Some(CallBad), FALSE),
      Chunk(NoneV, TRUE) }

\* text that holds a whole call to v; white space; the finish chunk
ContinuationChunks ==
    { Chunk(Some(TxtHi \o OpenTag \o JsonV \o CloseTag), FALSE), Chunk(Some(TxtWs), FALSE),
      Chunk(NoneV, TRUE) }

\* what call_mcp_tool returns: Ok(text) or Err(text)
Txt42 == <<"4","2">>
TxtBoom == <<"b","o","o","m">>
TxtCallV == OpenTag \o JsonV \o CloseTag
ToolResults == { Txt42, TxtCallV }
ToolErrors == { TxtBoom }

\* the transport's error text
TxtReset == <<"r","e","s","e","t">>
TransportErrors == { TxtReset }

\* the longest primary and continuation streams the model delivers
MaxChunks == 3
MaxContChunks == 1

\* the pieces a scanned text is put together from: plain text, stray tags, a
\* bare JSON object, whole blocks that are well formed and whole blocks that
\* are not
ScanPieces ==
    { TxtHi, OpenTag, CloseTag, JsonT, CallT, TxtCallV, CallBad, CallNoArgs, CallNumName }

\* the most pieces a scanned text is made of
MaxPieces == 3

(***************************************************************************)
(* The turn: chat_with_loaded_model_streaming                              *)
(***************************************************************************)
VARIABLES
    pc,                 \* where the turn's task is
    full_response,      \* the turn buffer
    executed_tools,     \* HashSet of signatures
    needs_continuation,
    tool_calls,         \* the rest of the scan's list the for loop is walking
    inflight,           \* the call_mcp_tool call being awaited
    scanned,            \* history: the length of the buffer at the last scan
    continued_response, \* the buffer of continue_conversation_after_tools
    sink,               \* the events emitted, in order
    chunks,             \* history: the primary stream's chunks, as delivered
    cont_chunks,        \* history: the continuation stream's chunks
    invocations,        \* history: the call_mcp_tool calls, in order
    outcomes,           \* history: what each call returned, in order
    streams,            \* history: the create_stream calls, in order
    warned,             \* history: "Stream ended with incomplete tool call" logged
    result,             \* what the turn returned
    input,              \* the arguments of the turn and the stored session
    requests,           \* history: the message list of each create_stream call
    loaded_model,       \* ovms.rs: what the mutex of LOADED_MODEL holds
    model_task,         \* where each task running load_model or unload_model is
    model_log,          \* history: the load_model and unload_model calls that returned
    manager,            \* mcp/commands.rs: what the mutex of MCP_MANAGER holds
    mcp_task,           \* where each task running an MCP command is
    mcp_log             \* history: the MCP commands that returned

\* the state of the commands that run beside the turn
command_vars == <<loaded_model, model_task, model_log, manager, mcp_task, mcp_log>>

vars == <<pc, full_response, executed_tools, needs_continuation, tool_calls,
          inflight, scanned, continued_response, sink, chunks, cont_chunks, invocations,
          outcomes, streams, warned, result, input, requests,
          loaded_model, model_task, model_log, manager, mcp_task, mcp_log>>

\* the tasks the runtime runs one command at a time on
Tasks == {1, 2}

\* a task that runs no command
Idle == [at |-> "idle"]

\* no command has been called yet: both statics hold None
CommandsInit ==
    /\ loaded_model = NoneV
    /\ model_task = [t \in Tasks |-> Idle]
    /\ model_log = <<>>
    /\ manager = NoneV
    /\ mcp_task = [t \in Tasks |-> Idle]
    /\ mcp_log = <<>>

(***************************************************************************)
(* The request: the message list the turn sends with create_stream         *)
(***************************************************************************)
\* a stored ChatMessage and a request message alike: a role and a text
ChatMessage(role, content) == [role |-> role, content |-> content]

TxtAsk == <<"q">>
TxtOld == <<"o">>
TxtSys == <<"c">>
TxtTools == <<"#","T">>

\* the text unwrap_or_else puts in when no system prompt is given
DefaultSystemPrompt == <<"Y","o","u">>

\* the session file: not readable or without the session, empty, a plain
\* exchange, one with a system entry that ends with the current input, one
\* that ends with the input's text said by the assistant, and one that ends
\* with another text said by the user
StoredSessions ==
    { [ok |-> FALSE],
      [ok |-> TRUE, v |-> <<>>],
      [ok |-> TRUE, v |-> <<ChatMessage("user", TxtAsk), ChatMessage("assistant", TxtOld)>>],
      [ok |-> TRUE, v |-> <<ChatMessage("system", TxtSys), ChatMessage("assistant", TxtOld),
                            ChatMessage("user", TxtAsk)>>],
      [ok |-> TRUE, v |-> <<ChatMessage("assistant", TxtAsk)>>],
      [ok |-> TRUE, v |-> <<ChatMessage("user", TxtAsk), ChatMessage("user", TxtOld)>>] }

\* the arguments of chat_with_loaded_model_streaming that the message list
\* depends on, the tools text and what the session file holds
TurnInputs ==
    [ message : {TxtAsk},
      session_id : {NoneV, Some(<<"s">>)},
      include_history : {NoneV, Some(FALSE), Some(TRUE)},
      system_prompt : {NoneV, Some(TxtSys)},
      tools_info : {TxtTools},
      stored : StoredSessions ]

\* the input of the turns whose streams are looked at
TurnInput ==
    [ message |-> TxtAsk, session_id |-> Some(<<"s">>), include_history |-> Some(TRUE),
      system_prompt |-> NoneV, tools_info |-> TxtTools,
      stored |-> [ok |-> TRUE,
                  v |-> <<ChatMessage("user", TxtAsk), ChatMessage("assistant", TxtOld)>>] ]

\* format!("{}{}", base_system_message, tools_info)
SystemMessage(in) ==
    (IF in.system_prompt.some THEN in.system_prompt.v ELSE DefaultSystemPrompt)
    \o in.tools_info

\* get_conversation_history: the session's user and assistant messages
RECURSIVE UserAndAssistant(_)
UserAndAssistant(ms) ==
    IF ms = <<>> THEN <<>>
    ELSE (IF Head(ms).role = "user" \/ Head(ms).role = "assistant"
          THEN <<Head(ms)>> ELSE <<>>)
         \o UserAndAssistant(Tail(ms))

get_conversation_history(stored) ==
    IF stored.ok THEN [ok |-> TRUE, v |-> UserAndAssistant(stored.v)] ELSE [ok |-> FALSE]

\* mutant: the last message is dropped whenever the user said it
DropLastUser(history, message) ==
    IF history # <<>> /\ history[Len(history)].role = "user"
    THEN SubSeq(history, 1, Len(history) - 1)
    ELSE history

\* history.pop() when the last message is the current input
DropRepeatedInput(history, message) ==
    IF /\ history # <<>>
       /\ history[Len(history)].role = "user"
       /\ history[Len(history)].content = message
    THEN SubSeq(history, 1, Len(history) - 1)
    ELSE history

\* the for loop over history: a request message for each user and assistant
\* message, other roles skipped
RECURSIVE HistoryMessages(_)
HistoryMessages(history) ==
    IF history = <<>> THEN <<>>
    ELSE (CASE Head(history).role = "user" ->
                   <<ChatMessage("user", Head(history).content)>>
            [] Head(history).role = "assistant" ->
                   <<ChatMessage("assistant", Head(history).content)>>
            [] OTHER -> <<>>)
         \o HistoryMessages(Tail(history))

\* the messages of the primary request
AssembleMessages(in) ==
    LET unwrapped == IF in.include_history.some THEN in.include_history.v ELSE FALSE
        looked_up == get_conversation_history(in.stored)
        history == IF unwrapped /\ in.session_id.some /\ looked_up.ok
                   THEN HistoryMessages(DropRepeatedInput(looked_up.v, in.message))
                   ELSE <<>>
    IN  <<ChatMessage("system", SystemMessage(in))>> \o history
        \o <<ChatMessage("user", in.message)>>

system_message == SystemMessage(input)

messages == AssembleMessages(input)

\* previous_messages.iter().skip(1)
Skip1(ms) == IF ms = <<>> THEN <<>> ELSE Tail(ms)

\* mutant: the previous messages are copied with their system message
ContinuationMessagesNoSkip(system, previous_messages, assistant_response_with_tools) ==
    <<ChatMessage("system", system)>> \o previous_messages
    \o <<ChatMessage("assistant", assistant_response_with_tools)>>

\* continuation_messages of continue_conversation_after_tools
ContinuationMessages(system, previous_messages, assistant_response_with_tools) ==
    <<ChatMessage("system", system)>> \o Skip1(previous_messages)
    \o <<ChatMessage("assistant", assistant_response_with_tools)>>

NoCall == [name |-> <<>>, args |-> <<>>, map |-> NoneV]

\* app.emit("chat-token", {token, finished}); kind, chunk and call are
\* history: what the event is, and during which primary chunk and after how
\* many call_mcp_tool calls it was emitted
TokenEvent(token, finished, kind) ==
    [ev |-> "chat-token", token |-> token, finished |-> finished,
     kind |-> kind, chunk |-> Len(chunks), call |-> Len(invocations)]

ToolCallEvent(name, args, res) ==
    [ev |-> "tool-call", tool_name |-> name, arguments |-> args, result |-> res,
     kind |-> "tool-call", chunk |-> Len(chunks), call |-> Len(invocations)]

ChatErrorEvent(err) ==
    [ev |-> "chat-error", error |-> <<"S","t","r","e","a","m"," ","e","r","r","o","r",":"," ">> \o err,
     kind |-> "chat-error", chunk |-> Len(chunks), call |-> Len(invocations)]

Init ==
    /\ pc = "assembling"
    /\ full_response = <<>>
    /\ executed_tools = {}
    /\ needs_continuation = FALSE
    /\ tool_calls = <<>>
    /\ inflight = NoCall
    /\ scanned = 0
    /\ continued_response = <<>>
    /\ sink = <<>>
    /\ chunks = <<>>
    /\ cont_chunks = <<>>
    /\ invocations = <<>>
    /\ outcomes = <<>>
    /\ streams = <<>>
    /\ warned = FALSE
    /\ result = [kind |-> "running"]
    /\ input = TurnInput
    /\ requests = <<>>
    /\ CommandsInit

\* client.chat().create_stream(request) succeeds
CreateStreamOk ==
    /\ pc = "assembling"
    /\ streams' = Append(streams, "primary")
    /\ pc' = "streaming"
    /\ UNCHANGED <<scanned, full_response, executed_tools, needs_continuation, tool_calls,
                   inflight, continued_response, sink, chunks, cont_chunks,
                   invocations, outcomes, warned, result>>
    /\ requests' = Append(requests, messages)
    /\ UNCHANGED input
    /\ UNCHANGED command_vars

\* create_stream fails: the ? returns the hard error
CreateStreamErr(err) ==
    /\ pc = "assembling"
    /\ streams' = Append(streams, "primary")
    /\ pc' = "failed"
    /\ result' = [kind |-> "hard_error",
                  text |-> <<"F","a","i","l","e","d"," ","t","o"," ","c","r","e","a","t","e"," ","c","h","a","t"," ","s","t","r","e","a","m",":"," ">> \o err]
    /\ UNCHANGED <<scanned, full_response, executed_tools, needs_continuation, tool_calls,
                   inflight, continued_response, sink, chunks, cont_chunks,
                   invocations, outcomes, warned>>
    /\ requests' = Append(requests, messages)
    /\ UNCHANGED input
    /\ UNCHANGED command_vars

\* mutant: the buffer is assigned instead of appended to
PushStrOverwrite(buffer, text) == text

\* String::push_str
PushStr(buffer, text) == buffer \o text

\* mutant: the stream is polled while a tool call is awaited
CanTakeChunkDuringCall == pc \in {"streaming", "calling"}

\* the while loop asks the stream for its next item only between two runs of
\* its body
CanTakeChunk == pc = "streaming"

\* executed_tools.contains(&tool_signature)
AlreadyExecuted(executed, tool_signature) == tool_signature \in executed

\* mutant: the signature is never recorded
MarkExecutedNever(executed, tool_signature) == executed

\* executed_tools.insert(tool_signature), before the call
MarkExecuted(executed, tool_signature) == executed \cup {tool_signature}

\* format!("{}:{}", fn_name, fn_args)
ToolSignature(fn_name, fn_args) == fn_name \o <<":">> \o fn_args

\* the arguments handed to call_mcp_tool: the parsed map without its null
\* members, None when the text does not parse as an object
ArgsMap(fn_args) ==
    LET parsed == FromStr(fn_args)
    IN  IF parsed.ok /\ parsed.val.t = "obj"
        THEN Some(RetainNonNull(parsed.val.m))
        ELSE NoneV

\* mutant: the block is not set off from the text before it
ToolResponseTextNoNewline(tool_result) ==
    RespOpenTag \o NL \o tool_result \o NL \o RespCloseTag

\* format!("\n<tool_response>\n{}\n</tool_response>", tool_result)
ToolResponseText(tool_result) ==
    NL \o RespOpenTag \o NL \o tool_result \o NL \o RespCloseTag

\* mutant: an error is rendered like a result
ErrorResponseTextBare(e) ==
    NL \o RespOpenTag \o NL \o e \o NL \o RespCloseTag

\* format!("\n<tool_response>\nError: {}\n</tool_response>", e)
ErrorResponseText(e) ==
    NL \o RespOpenTag \o NL \o <<"E","r","r","o","r",":"," ">> \o e \o NL \o RespCloseTag

\* the finish-reason check that ends a chunk's handling: it only logs
WarnedAfter(c, buffer) ==
    warned \/ (c.finish /\ has_incomplete_tool_call(buffer))

\* where the task goes when the for loop over the scan's list has `rest` left
AfterCall(rest) == IF rest = <<>> THEN "streaming" ELSE "dispatch"

\* mutant: content that closes a tool call is kept from the sink
ForwardUnlessMarkup(content) ==
    IF Contains(content, CloseTag) THEN <<>>
    ELSE <<[TokenEvent(content, FALSE, "raw") EXCEPT !.chunk = Len(chunks) + 1]>>

\* the emit of the chunk's content, before the scan
ForwardRawToken(content) ==
    <<[TokenEvent(content, FALSE, "raw") EXCEPT !.chunk = Len(chunks) + 1]>>

\* stream.next() yields Ok(response): push the content, emit it, scan the
\* whole buffer; with nothing to dispatch the chunk's handling ends here
ReceiveChunk(c) ==
    /\ CanTakeChunk
    /\ Len(chunks) < MaxChunks
    /\ chunks' = Append(chunks, c)
    /\ IF c.content.some
       THEN LET buffer == PushStr(full_response, c.content.v)
                found == extract_all_tool_calls_from_xml(buffer)
            IN  /\ full_response' = buffer
                /\ sink' = sink \o ForwardRawToken(c.content.v)
                /\ tool_calls' = found
                /\ scanned' = Len(full_response')
                /\ pc' = AfterCall(tool_calls')
                /\ warned' = IF tool_calls' = <<>>
                             THEN WarnedAfter(c, full_response') ELSE warned
       ELSE /\ warned' = WarnedAfter(c, full_response)
            /\ UNCHANGED <<scanned, full_response, sink, tool_calls, pc>>
    /\ UNCHANGED <<executed_tools, needs_continuation, inflight, continued_response,
                   cont_chunks, invocations, outcomes, streams, result>>
    /\ UNCHANGED <<input, requests>>
    /\ UNCHANGED command_vars

\* the for loop meets a signature already in executed_tools: continue
SkipExecuted ==
    /\ pc = "dispatch"
    /\ tool_calls # <<>>
    /\ AlreadyExecuted(executed_tools,
                       ToolSignature(Head(tool_calls).fn_name, Head(tool_calls).fn_args))
    /\ tool_calls' = Tail(tool_calls)
    /\ pc' = AfterCall(Tail(tool_calls))
    /\ warned' = IF Tail(tool_calls) = <<>>
                 THEN WarnedAfter(chunks[Len(chunks)], full_response) ELSE warned
    /\ UNCHANGED <<scanned, full_response, executed_tools, needs_continuation, inflight,
                   continued_response, sink, chunks, cont_chunks, invocations, outcomes,
                   streams, result>>
    /\ UNCHANGED <<input, requests>>
    /\ UNCHANGED command_vars

\* the for loop meets a new signature: insert it, build the arguments map and
\* call call_mcp_tool; the task now awaits the tool
StartCall ==
    /\ pc = "dispatch"
    /\ tool_calls # <<>>
    /\ LET fn_name == Head(tool_calls).fn_name
           fn_args == Head(tool_calls).fn_args
           tool_signature == ToolSignature(fn_name, fn_args)
           call == [name |-> fn_name, args |-> fn_args, map |-> ArgsMap(fn_args)]
       IN  /\ ~AlreadyExecuted(executed_tools, tool_signature)
           /\ executed_tools' = MarkExecuted(executed_tools, tool_signature)
           /\ inflight' = call
           /\ invocations' = Append(invocations,
                  [name |-> fn_name, args |-> fn_args, map |-> inflight'.map,
                   signature |-> tool_signature, chunk |-> Len(chunks),
                   at |-> Len(full_response)])
    /\ tool_calls' = Tail(tool_calls)
    /\ pc' = "calling"
    /\ UNCHANGED <<scanned, outcomes, full_response, needs_continuation, continued_response, sink,
                   chunks, cont_chunks, streams, warned, result>>
    /\ UNCHANGED <<input, requests>>
    /\ UNCHANGED command_vars

\* call_mcp_tool returns Ok(tool_result)
ToolOk(tool_result) ==
    /\ pc = "calling"
    /\ LET tool_response_text == ToolResponseText(tool_result)
           buffer == PushStr(full_response, tool_response_text)
       IN  /\ full_response' = buffer
           /\ sink' = sink \o
                  << ToolCallEvent(inflight.name, inflight.args, tool_result),
                     TokenEvent(tool_response_text, FALSE, "response") >>
           /\ warned' = IF tool_calls = <<>>
                        THEN WarnedAfter(chunks[Len(chunks)], buffer) ELSE warned
    /\ needs_continuation' = TRUE
    /\ inflight' = NoCall
    /\ pc' = AfterCall(tool_calls)
    /\ outcomes' = Append(outcomes, [ok |-> TRUE, text |-> tool_result])
    /\ UNCHANGED <<scanned, executed_tools, tool_calls, continued_response, chunks,
                   cont_chunks, invocations, streams, result>>
    /\ UNCHANGED <<input, requests>>
    /\ UNCHANGED command_vars

\* call_mcp_tool returns Err(e)
ToolErr(e) ==
    /\ pc = "calling"
    /\ LET error_response_text == ErrorResponseText(e)
           buffer == PushStr(full_response, error_response_text)
       IN  /\ full_response' = buffer
           /\ sink' = Append(sink, TokenEvent(error_response_text, FALSE, "response"))
           /\ warned' = IF tool_calls = <<>>
                        THEN WarnedAfter(chunks[Len(chunks)], buffer) ELSE warned
    /\ needs_continuation' = TRUE
    /\ inflight' = NoCall
    /\ pc' = AfterCall(tool_calls)
    /\ outcomes' = Append(outcomes, [ok |-> FALSE, text |-> e])
    /\ UNCHANGED <<scanned, executed_tools, tool_calls, continued_response, chunks,
                   cont_chunks, invocations, streams, result>>
    /\ UNCHANGED <<input, requests>>
    /\ UNCHANGED command_vars

\* stream.next() yields None: the while loop ends
StreamEnd ==
    /\ pc = "streaming"
    /\ pc' = "stream_done"
    /\ UNCHANGED <<scanned, full_response, executed_tools, needs_continuation, tool_calls,
                   inflight, continued_response, sink, chunks, cont_chunks,
                   invocations, outcomes, streams, warned, result>>
    /\ UNCHANGED <<input, requests>>
    /\ UNCHANGED command_vars

\* mutant: a broken primary stream is opened again
StreamErrorRetry(err) ==
    /\ pc = "streaming"
    /\ sink' = Append(sink, ChatErrorEvent(err))
    /\ pc' = "assembling"
    /\ UNCHANGED <<scanned, full_response, executed_tools, needs_continuation, tool_calls,
                   inflight, continued_response, chunks, cont_chunks,
                   invocations, outcomes, streams, warned, result>>
    /\ UNCHANGED <<input, requests>>
    /\ UNCHANGED command_vars

\* mutant: a broken primary stream is returned as the turn's error
StreamErrorHard(err) ==
    /\ pc = "streaming"
    /\ sink' = Append(sink, ChatErrorEvent(err))
    /\ result' = [kind |-> "hard_error", text |-> err]
    /\ pc' = "failed"
    /\ UNCHANGED <<scanned, full_response, executed_tools, needs_continuation, tool_calls,
                   inflight, continued_response, chunks, cont_chunks,
                   invocations, outcomes, streams, warned>>
    /\ UNCHANGED <<input, requests>>
    /\ UNCHANGED command_vars

\* stream.next() yields Err(err): emit chat-error and break
StreamError(err) ==
    /\ pc = "streaming"
    /\ sink' = Append(sink, ChatErrorEvent(err))
    /\ pc' = "stream_done"
    /\ UNCHANGED <<scanned, full_response, executed_tools, needs_continuation, tool_calls,
                   inflight, continued_response, chunks, cont_chunks,
                   invocations, outcomes, streams, warned, result>>
    /\ UNCHANGED <<input, requests>>
    /\ UNCHANGED command_vars

(***************************************************************************)
(* After the primary stream: the continuation and the end of the turn      *)
(***************************************************************************)
\* the two nested ifs that guard the continuation
ShouldContinue == needs_continuation /\ check_if_continuation_needed(full_response)

\* format!("\n\n[Continuation Error: {}]", e)
ContinuationErrorText(e) ==
    <<"\n","\n","[","C","o","n","t","i","n","u","a","t","i","o","n"," ","E","r","r","o","r",":"," ">>
    \o e \o <<"]">>

FinishedEvent == TokenEvent(<<>>, TRUE, "finished")

\* a character that takes two bytes in UTF-8; every other character of the
\* model's texts takes one
Wide == "é"

\* char::len_utf8
ByteWidth(c) == IF c = Wide THEN 2 ELSE 1

\* the positions of the characters of text that take two bytes
WidePositions(text) == {i \in 1..Len(text) : ByteWidth(text[i]) = 2}

\* the bytes of the first k characters of a text with these wide positions:
\* one each, and one more for every two-byte character
Bytes(wide, k) == k + Cardinality({i \in wide : i <= k})

\* String::len
ByteLen(text) == Bytes(WidePositions(text), Len(text))

\* whether the first k characters take exactly n bytes for some k in lo..hi
RECURSIVE PrefixTakes(_, _, _, _)
PrefixTakes(wide, n, lo, hi) ==
    IF lo > hi THEN FALSE
    ELSE LET mid == (lo + hi) \div 2
             taken == Bytes(wide, mid)
         IN  IF taken = n THEN TRUE
             ELSE IF taken < n THEN PrefixTakes(wide, n, mid + 1, hi)
             ELSE PrefixTakes(wide, n, lo, mid - 1)

\* str::is_char_boundary(n): byte n is where a character starts or the text
\* ends, that is some whole number of characters takes exactly n bytes
IsCharBoundary(text, n) ==
    \E wide \in {WidePositions(text)} : PrefixTakes(wide, n, 0, Len(text))

\* the preview of the info! log that precedes the return
PreviewBytes == 500

\* &full_response[..500], evaluated when full_response.len() > 500: the slice
\* panics when byte 500 lies inside a character
SlicePanics(text) ==
    /\ 2 * Len(text) > PreviewBytes
    /\ ByteLen(text) > PreviewBytes
    /\ ~IsCharBoundary(text, PreviewBytes)

\* the end of the function after the completion signal: the log, then
\* Ok(full_response), unless the log's slice panicked
Returned(text) ==
    IF SlicePanics(text) THEN [kind |-> "panic"] ELSE [kind |-> "text", text |-> text]

\* where the call is after that: returned, or unwound by the panic
ReturnPoint(returned) == IF returned.kind = "panic" THEN "panicked" ELSE "done"


\* mutant: the continuation's text is appended whatever it holds
MergeContinuationAlways(buffer, continued) == PushStr(buffer, continued)

\* Ok(continued_response): appended unless it trims to nothing
MergeContinuation(buffer, continued) ==
    IF ~TrimIsEmpty(continued) THEN PushStr(buffer, continued) ELSE buffer

\* no continuation: emit the completion signal and return Ok(full_response)
FinishWithoutContinuation ==
    /\ pc = "stream_done"
    /\ ~ShouldContinue
    /\ sink' = Append(sink, FinishedEvent)
    /\ result' = Returned(full_response)
    /\ pc' = ReturnPoint(result')
    /\ UNCHANGED <<scanned, full_response, executed_tools, needs_continuation, tool_calls,
                   inflight, continued_response, chunks, cont_chunks, invocations, outcomes,
                   streams, warned>>
    /\ UNCHANGED <<input, requests>>
    /\ UNCHANGED command_vars

\* mutant: the continuation is asked for whether or not a tool was called
ContinuationOpenUnguarded ==
    /\ pc = "stream_done"
    /\ streams' = Append(streams, "continuation")
    /\ pc' = "continuing"
    /\ UNCHANGED <<scanned, full_response, executed_tools, needs_continuation, tool_calls,
                   inflight, continued_response, sink, chunks, cont_chunks,
                   invocations, outcomes, warned, result>>
    /\ requests' = Append(requests,
           ContinuationMessages(system_message, messages, full_response))
    /\ UNCHANGED input
    /\ UNCHANGED command_vars

\* continue_conversation_after_tools: its create_stream succeeds
ContinuationOpen ==
    /\ pc = "stream_done"
    /\ ShouldContinue
    /\ streams' = Append(streams, "continuation")
    /\ pc' = "continuing"
    /\ UNCHANGED <<scanned, full_response, executed_tools, needs_continuation, tool_calls,
                   inflight, continued_response, sink, chunks, cont_chunks,
                   invocations, outcomes, warned, result>>
    /\ requests' = Append(requests,
           ContinuationMessages(system_message, messages, full_response))
    /\ UNCHANGED input
    /\ UNCHANGED command_vars

\* mutant: a failed continuation is returned as the turn's error
FailContinuationHard(e) ==
    /\ full_response' = full_response
    /\ sink' = sink
    /\ result' = [kind |-> "hard_error", text |-> e]
    /\ pc' = "failed"

\* the Err arm of the caller, then the completion signal and the return
FailContinuation(e) ==
    LET error_msg == ContinuationErrorText(e)
    IN  /\ full_response' = PushStr(full_response, error_msg)
        /\ sink' = sink \o <<TokenEvent(error_msg, FALSE, "annotation"), FinishedEvent>>
        /\ result' = Returned(full_response')
        /\ pc' = ReturnPoint(result')

\* continue_conversation_after_tools: its create_stream fails
ContinuationCreateErr(err) ==
    /\ pc = "stream_done"
    /\ ShouldContinue
    /\ streams' = Append(streams, "continuation")
    /\ FailContinuation(<<"F","a","i","l","e","d"," ","t","o"," ","c","r","e","a","t","e"," ","c","o","n","t","i","n","u","a","t","i","o","n"," ","s","t","r","e","a","m",":"," ">> \o err)
    /\ UNCHANGED <<scanned, executed_tools, needs_continuation, tool_calls, inflight,
                   continued_response, chunks, cont_chunks, invocations, outcomes, warned>>
    /\ requests' = Append(requests,
           ContinuationMessages(system_message, messages, full_response))
    /\ UNCHANGED input
    /\ UNCHANGED command_vars

\* mutant: the continuation's text is scanned and its calls are dispatched
ContChunkScanned(c) ==
    /\ pc = "continuing"
    /\ Len(cont_chunks) < MaxContChunks
    /\ cont_chunks' = Append(cont_chunks, c)
    /\ IF c.content.some
       THEN LET found == extract_all_tool_calls_from_xml(
                             PushStr(continued_response, c.content.v))
            IN  /\ continued_response' = PushStr(continued_response, c.content.v)
                /\ sink' = Append(sink, TokenEvent(c.content.v, FALSE, "continuation"))
                /\ tool_calls' = found
                /\ pc' = IF found = <<>> THEN pc ELSE "dispatch"
       ELSE UNCHANGED <<continued_response, sink, tool_calls, pc>>
    /\ UNCHANGED <<scanned, full_response, executed_tools, needs_continuation,
                   inflight, chunks, invocations, outcomes, streams, warned, result>>
    /\ UNCHANGED <<input, requests>>
    /\ UNCHANGED command_vars

\* the continuation stream yields Ok(response): push and emit, no scan
ContChunk(c) ==
    /\ pc = "continuing"
    /\ Len(cont_chunks) < MaxContChunks
    /\ cont_chunks' = Append(cont_chunks, c)
    /\ IF c.content.some
       THEN /\ continued_response' = PushStr(continued_response, c.content.v)
            /\ sink' = Append(sink, TokenEvent(c.content.v, FALSE, "continuation"))
       ELSE UNCHANGED <<scanned, continued_response, sink>>
    /\ UNCHANGED <<scanned, pc, full_response, executed_tools, needs_continuation, tool_calls,
                   inflight, chunks, invocations, outcomes, streams, warned, result>>
    /\ UNCHANGED <<input, requests>>
    /\ UNCHANGED command_vars

\* the continuation stream yields None: Ok(continued_response), merged by the
\* caller, then the completion signal and the return
ContEnd ==
    /\ pc = "continuing"
    /\ full_response' = MergeContinuation(full_response, continued_response)
    /\ sink' = Append(sink, FinishedEvent)
    /\ result' = Returned(full_response')
    /\ pc' = ReturnPoint(result')
    /\ UNCHANGED <<scanned, executed_tools, needs_continuation, tool_calls, inflight,
                   continued_response, chunks, cont_chunks, invocations, outcomes, streams,
                   warned>>
    /\ UNCHANGED <<input, requests>>
    /\ UNCHANGED command_vars

\* the continuation stream yields Err(err): return Err(error_info)
ContError(err) ==
    /\ pc = "continuing"
    /\ FailContinuation(<<"C","o","n","t","i","n","u","a","t","i","o","n"," ","s","t","r","e","a","m"," ","e","r","r","o","r",":"," ">> \o err)
    /\ UNCHANGED <<scanned, executed_tools, needs_continuation, tool_calls, inflight,
                   continued_response, chunks, cont_chunks, invocations, outcomes, streams,
                   warned>>
    /\ UNCHANGED <<input, requests>>
    /\ UNCHANGED command_vars

Next ==
    \/ CreateStreamOk
    \/ \E err \in TransportErrors : CreateStreamErr(err)
    \/ \E c \in PrimaryChunks : ReceiveChunk(c)
    \/ SkipExecuted
    \/ StartCall
    \/ \E r \in ToolResults : ToolOk(r)
    \/ \E e \in ToolErrors : ToolErr(e)
    \/ StreamEnd
    \/ \E err \in TransportErrors : StreamError(err)
    \/ FinishWithoutContinuation
    \/ ContinuationOpen
    \/ \E err \in TransportErrors : ContinuationCreateErr(err)
    \/ \E c \in ContinuationChunks : ContChunk(c)
    \/ ContEnd
    \/ \E err \in TransportErrors : ContError(err)

Spec == Init /\ [][Next]_vars

(***************************************************************************)
(* The turn for every input: the same steps, with the arguments and the    *)
(* session file drawn from TurnInputs and shorter menus for the streams    *)
(***************************************************************************)
RequestInit ==
    /\ pc = "assembling"
    /\ full_response = <<>>
    /\ executed_tools = {}
    /\ needs_continuation = FALSE
    /\ tool_calls = <<>>
    /\ inflight = NoCall
    /\ scanned = 0
    /\ continued_response = <<>>
    /\ sink = <<>>
    /\ chunks = <<>>
    /\ cont_chunks = <<>>
    /\ invocations = <<>>
    /\ outcomes = <<>>
    /\ streams = <<>>
    /\ warned = FALSE
    /\ result = [kind |-> "running"]
    /\ input \in TurnInputs
    /\ requests = <<>>
    /\ CommandsInit

\* text that ends with a whole call to t; plain text
RequestChunks == { Chunk(Some(CallU2 \o CallT), FALSE), Chunk(Some(TxtHi), FALSE) }

RequestNext ==
    \/ CreateStreamOk
    \/ \E err \in TransportErrors : CreateStreamErr(err)
    \/ \E c \in RequestChunks : ReceiveChunk(c)
    \/ SkipExecuted
    \/ StartCall
    \/ ToolOk(Txt42)
    \/ \E e \in ToolErrors : ToolErr(e)
    \/ StreamEnd
    \/ \E err \in TransportErrors : StreamError(err)
    \/ FinishWithoutContinuation
    \/ ContinuationOpen
    \/ \E err \in TransportErrors : ContinuationCreateErr(err)
    \/ ContChunk(Chunk(Some(TxtHi), FALSE))
    \/ ContEnd
    \/ \E err \in TransportErrors : ContError(err)

RequestSpec == RequestInit /\ [][RequestNext]_vars

(***************************************************************************)
(* The turn for one model text split into chunks in different ways: two    *)
(* calls back to back, delivered whole, or cut inside the second call, or  *)
(* the second call alone                                                   *)
(***************************************************************************)
SplitChunks ==
    { Chunk(Some(CallT \o CallU1 \o CallU2), FALSE),
      Chunk(Some(CallT \o CallU1), FALSE),
      Chunk(Some(CallU2), FALSE) }

SplitNext ==
    \/ CreateStreamOk
    \/ \E err \in TransportErrors : CreateStreamErr(err)
    \/ \E c \in SplitChunks : ReceiveChunk(c)
    \/ SkipExecuted
    \/ StartCall
    \/ ToolOk(Txt42)
    \/ \E e \in ToolErrors : ToolErr(e)
    \/ StreamEnd
    \/ \E err \in TransportErrors : StreamError(err)
    \/ FinishWithoutContinuation
    \/ ContinuationOpen
    \/ \E err \in TransportErrors : ContinuationCreateErr(err)
    \/ ContChunk(Chunk(Some(TxtHi), FALSE))
    \/ ContEnd
    \/ \E err \in TransportErrors : ContError(err)

SplitSpec == Init /\ [][SplitNext]_vars

(***************************************************************************)
(* The turn for a response of more than 500 bytes: the menu has a text of  *)
(* 501 bytes whose last character lies across byte 500                     *)
(***************************************************************************)
\* one letter and 250 two-byte characters
TxtLong == [i \in 1..251 |-> IF i = 1 THEN "a" ELSE Wide]

LongChunks ==
    { Chunk(Some(CallT), FALSE), Chunk(Some(TxtLong), FALSE), Chunk(NoneV, TRUE) }

LongNext ==
    \/ CreateStreamOk
    \/ \E err \in TransportErrors : CreateStreamErr(err)
    \/ \E c \in LongChunks : ReceiveChunk(c)
    \/ SkipExecuted
    \/ StartCall
    \/ ToolOk(Txt42)
    \/ \E e \in ToolErrors : ToolErr(e)
    \/ StreamEnd
    \/ \E err \in TransportErrors : StreamError(err)
    \/ FinishWithoutContinuation
    \/ ContinuationOpen
    \/ \E err \in TransportErrors : ContinuationCreateErr(err)
    \/ ContChunk(Chunk(Some(TxtHi), FALSE))
    \/ ContEnd
    \/ \E err \in TransportErrors : ContError(err)

LongSpec == Init /\ [][LongNext]_vars

(***************************************************************************)
(* The scanner's functions on their own: a text is put together from       *)
(* pieces and handed to extract_all_tool_calls_from_xml and to             *)
(* has_incomplete_tool_call.  full_response is the text, chunks the pieces *)
(* it was made of, tool_calls the list returned and warned the boolean     *)
(* returned.                                                               *)
(***************************************************************************)
ScanInit ==
    /\ pc = "scan_input"
    /\ full_response = <<>>
    /\ executed_tools = {}
    /\ needs_continuation = FALSE
    /\ tool_calls = <<>>
    /\ inflight = NoCall
    /\ scanned = 0
    /\ continued_response = <<>>
    /\ sink = <<>>
    /\ chunks = <<>>
    /\ cont_chunks = <<>>
    /\ invocations = <<>>
    /\ outcomes = <<>>
    /\ streams = <<>>
    /\ warned = FALSE
    /\ result = [kind |-> "running"]
    /\ input = TurnInput
    /\ requests = <<>>
    /\ CommandsInit

\* one more piece of text
ScanAppend(piece) ==
    /\ pc = "scan_input"
    /\ Len(chunks) < MaxPieces
    /\ chunks' = Append(chunks, Chunk(Some(piece), FALSE))
    /\ full_response' = PushStr(full_response, piece)
    /\ UNCHANGED <<pc, executed_tools, needs_continuation, tool_calls, inflight, scanned,
                   continued_response, sink, cont_chunks, invocations, outcomes,
                   streams, warned, result>>
    /\ UNCHANGED <<input, requests>>
    /\ UNCHANGED command_vars

\* the two functions are called on the text
ScanText ==
    /\ pc = "scan_input"
    /\ tool_calls' = extract_all_tool_calls_from_xml(full_response)
    /\ warned' = has_incomplete_tool_call(full_response)
    /\ scanned' = Len(full_response)
    /\ pc' = "scan_output"
    /\ UNCHANGED <<full_response, executed_tools, needs_continuation, inflight,
                   continued_response, sink, chunks, cont_chunks, invocations,
                   outcomes, streams, result>>
    /\ UNCHANGED <<input, requests>>
    /\ UNCHANGED command_vars

ScanNext ==
    \/ \E piece \in ScanPieces : ScanAppend(piece)
    \/ ScanText

ScanSpec == ScanInit /\ [][ScanNext]_vars

(***************************************************************************)
(* ovms.rs: load_model and unload_model.  The runtime runs commands on     *)
(* several tasks at once; a task takes a step each time it holds the mutex *)
(* of LOADED_MODEL or comes back from an await                             *)
(***************************************************************************)
\* a model id as the caller gives it, with or without the OpenVINO/ prefix
ModelId(prefixed, name) == [prefixed |-> prefixed, name |-> name]

ModelIds == { ModelId(FALSE, "m"), ModelId(TRUE, "n") }

\* normalized_model_id
Normalized(model_id) == ModelId(TRUE, model_id.name)

\* the most calls of load_model and unload_model that are started
MaxModelCalls == 3

\* the calls started so far: those that returned and those under way
ModelCalls ==
    Len(model_log) + Cardinality({t \in Tasks : model_task[t] # Idle})

\* a call's return: the task is free again
ModelReturn(t, op, ok, model) ==
    /\ model_task' = [model_task EXCEPT ![t] = Idle]
    /\ model_log' = Append(model_log, [op |-> op, ok |-> ok, model |-> model])

\* the turn and the MCP commands stand still
OnlyModelCommands ==
    UNCHANGED <<pc, full_response, executed_tools, needs_continuation, tool_calls,
                inflight, scanned, continued_response, sink, chunks, cont_chunks,
                invocations, outcomes, streams, warned, result, input, requests,
                manager, mcp_task, mcp_log>>

\* load_model, first block: a model is loaded, return the error
LoadRefused(t, model_id) ==
    /\ model_task[t] = Idle
    /\ ModelCalls < MaxModelCalls
    /\ loaded_model.some
    /\ ModelReturn(t, "load", FALSE, Normalized(model_id))
    /\ UNCHANGED loaded_model
    /\ OnlyModelCommands

\* load_model, first block: no model is loaded, the lock is released and the
\* function goes on to the paths and the two awaits
LoadChecked(t, model_id) ==
    /\ model_task[t] = Idle
    /\ ModelCalls < MaxModelCalls
    /\ ~loaded_model.some
    /\ model_task' = [model_task EXCEPT
                         ![t] = [at |-> "loading", model |-> Normalized(model_id)]]
    /\ UNCHANGED <<loaded_model, model_log>>
    /\ OnlyModelCommands

\* load_model: no home directory, no model at the path, or update_ovms_config
\* or reload_ovms_config fails
LoadFailed(t) ==
    /\ model_task[t] # Idle
    /\ model_task[t].at = "loading"
    /\ ModelReturn(t, "load", FALSE, model_task[t].model)
    /\ UNCHANGED loaded_model
    /\ OnlyModelCommands

\* load_model, last block: the model is marked as loaded, then Ok
LoadMarked(t) ==
    /\ model_task[t] # Idle
    /\ model_task[t].at = "loading"
    /\ loaded_model' = Some(model_task[t].model)
    /\ ModelReturn(t, "load", TRUE, model_task[t].model)
    /\ OnlyModelCommands

\* unload_model: loaded_model_guard.take() gives None, return the error
UnloadNothing(t) ==
    /\ model_task[t] = Idle
    /\ ModelCalls < MaxModelCalls
    /\ ~loaded_model.some
    /\ ModelReturn(t, "unload", FALSE, NoneV)
    /\ UNCHANGED loaded_model
    /\ OnlyModelCommands

\* unload_model: loaded_model_guard.take() gives the model and clears it
UnloadTaken(t) ==
    /\ model_task[t] = Idle
    /\ ModelCalls < MaxModelCalls
    /\ loaded_model.some
    /\ loaded_model' = NoneV
    /\ model_task' = [model_task EXCEPT
                         ![t] = [at |-> "unloading", model |-> loaded_model.v]]
    /\ UNCHANGED model_log
    /\ OnlyModelCommands

\* unload_model: create_minimal_test_config or reload_ovms_config fails
UnloadFailed(t) ==
    /\ model_task[t] # Idle
    /\ model_task[t].at = "unloading"
    /\ ModelReturn(t, "unload", FALSE, model_task[t].model)
    /\ UNCHANGED loaded_model
    /\ OnlyModelCommands

\* unload_model: the config was reloaded, Ok
UnloadDone(t) ==
    /\ model_task[t] # Idle
    /\ model_task[t].at = "unloading"
    /\ ModelReturn(t, "unload", TRUE, model_task[t].model)
    /\ UNCHANGED loaded_model
    /\ OnlyModelCommands



ModelNext ==
    \/ \E t \in Tasks, model_id \in ModelIds : LoadRefused(t, model_id)
    \/ \E t \in Tasks, model_id \in ModelIds : LoadChecked(t, model_id)
    \/ \E t \in Tasks : LoadFailed(t)
    \/ \E t \in Tasks : LoadMarked(t)
    \/ \E t \in Tasks : UnloadNothing(t)
    \/ \E t \in Tasks : UnloadTaken(t)
    \/ \E t \in Tasks : UnloadFailed(t)
    \/ \E t \in Tasks : UnloadDone(t)

ModelSpec == Init /\ [][ModelNext]_vars

(***************************************************************************)
(* mcp/commands.rs: the commands that work on the manager in MCP_MANAGER.  *)
(* A manager is modelled by the names of its connected clients.  A task    *)
(* takes a step each time it holds the mutex: in get_or_init_manager, in   *)
(* the block that takes the manager out or works on it in place, and in    *)
(* the block that puts it back after the await                             *)
(***************************************************************************)
Servers == {"s"}

\* connect_mcp_server, disconnect_mcp_server, fetch_mcp_server_tools,
\* get_all_mcp_tools_for_chat, call_mcp_tool
McpCommands == {"connect", "disconnect", "fetch_tools", "all_tools", "call_tool"}

\* the commands that take the manager out of the slot across their await
Borrowing == McpCommands \ {"disconnect"}

\* McpManager::new(config): no client yet
NewManager == {}

\* the most MCP commands that are started
MaxMcpCalls == 3

\* the commands started so far: those that returned and those under way
McpCalls ==
    Len(mcp_log) + Cardinality({t \in Tasks : mcp_task[t] # Idle})

\* a command's return: the task is free again
McpReturn(t, command, server, ok) ==
    /\ mcp_task' = [mcp_task EXCEPT ![t] = Idle]
    /\ mcp_log' = Append(mcp_log, [command |-> command, server |-> server, ok |-> ok])

\* the turn and the model commands stand still
OnlyMcpCommands ==
    UNCHANGED <<pc, full_response, executed_tools, needs_continuation, tool_calls,
                inflight, scanned, continued_response, sink, chunks, cont_chunks,
                invocations, outcomes, streams, warned, result, input, requests,
                loaded_model, model_task, model_log>>

\* get_or_init_manager returns Ok: an empty slot gets a new manager
ManagerReady(t, command, server) ==
    /\ mcp_task[t] = Idle
    /\ McpCalls < MaxMcpCalls
    /\ manager' = IF manager.some THEN manager ELSE Some(NewManager)
    /\ mcp_task' = [mcp_task EXCEPT
                       ![t] = [at |-> "ready", command |-> command, server |-> server]]
    /\ UNCHANGED mcp_log
    /\ OnlyMcpCommands

\* get_or_init_manager finds the slot empty and cannot read the config: the ?
\* returns the error
ManagerInitFailed(t, command, server) ==
    /\ mcp_task[t] = Idle
    /\ McpCalls < MaxMcpCalls
    /\ ~manager.some
    /\ McpReturn(t, command, server, FALSE)
    /\ UNCHANGED manager
    /\ OnlyMcpCommands

\* manager_guard.take(): the task now owns the manager, the slot is empty
ManagerTaken(t) ==
    /\ mcp_task[t] # Idle
    /\ mcp_task[t].at = "ready"
    /\ mcp_task[t].command \in Borrowing
    /\ manager.some
    /\ manager' = NoneV
    /\ mcp_task' = [mcp_task EXCEPT
                       ![t] = [at |-> "holding", command |-> mcp_task[t].command,
                               server |-> mcp_task[t].server,
                               temp_manager |-> manager.v]]
    /\ UNCHANGED mcp_log
    /\ OnlyMcpCommands

\* the slot is empty where the command needs the manager: "Manager not
\* initialized"
ManagerMissing(t) ==
    /\ mcp_task[t] # Idle
    /\ mcp_task[t].at = "ready"
    /\ ~manager.some
    /\ McpReturn(t, mcp_task[t].command, mcp_task[t].server, FALSE)
    /\ UNCHANGED manager
    /\ OnlyMcpCommands

\* McpManager::connect_to_server: the client is inserted when the connection
\* was made; the other methods borrow the manager and leave it as it was
AfterAwait(temp_manager, command, server, ok) ==
    IF command = "connect" /\ ok THEN temp_manager \cup {server} ELSE temp_manager

\* the await is over, with Ok or Err: *manager_guard = Some(temp_manager),
\* then the command returns the result
ManagerPutBack(t, ok) ==
    /\ mcp_task[t] # Idle
    /\ mcp_task[t].at = "holding"
    /\ manager' = Some(AfterAwait(mcp_task[t].temp_manager, mcp_task[t].command,
                                  mcp_task[t].server, ok))
    /\ McpReturn(t, mcp_task[t].command, mcp_task[t].server, ok)
    /\ OnlyMcpCommands

\* disconnect_mcp_server: manager.disconnect_from_server on the manager in
\* the slot, then Ok
Disconnected(t) ==
    /\ mcp_task[t] # Idle
    /\ mcp_task[t].at = "ready"
    /\ mcp_task[t].command = "disconnect"
    /\ manager.some
    /\ manager' = Some(manager.v \ {mcp_task[t].server})
    /\ McpReturn(t, "disconnect", mcp_task[t].server, TRUE)
    /\ OnlyMcpCommands

McpNext ==
    \/ \E t \in Tasks, command \in McpCommands, server \in Servers :
          ManagerReady(t, command, server)
    \/ \E t \in Tasks, command \in McpCommands, server \in Servers :
          ManagerInitFailed(t, command, server)
    \/ \E t \in Tasks : ManagerTaken(t)
    \/ \E t \in Tasks : ManagerMissing(t)
    \/ \E t \in Tasks, ok \in BOOLEAN : ManagerPutBack(t, ok)
    \/ \E t \in Tasks : Disconnected(t)

McpSpec == Init /\ [][McpNext]_vars

(***************************************************************************)
(* Properties of a turn                                                    *)
(***************************************************************************)
RECURSIVE ConcatContents(_)
ConcatContents(cs) ==
    IF cs = <<>> THEN <<>>
    ELSE (IF Head(cs).content.some THEN Head(cs).content.v ELSE <<>>)
         \o ConcatContents(Tail(cs))

\* the model text: the delta_text of the primary stream's chunks, in order
StreamText == ConcatContents(chunks)

ContinuationStreams == Cardinality({i \in 1..Len(streams) : streams[i] = "continuation"})

PrimaryStreams == Cardinality({i \in 1..Len(streams) : streams[i] = "primary"})

SinkKinds(kind) == {i \in 1..Len(sink) : sink[i].kind = kind}

\* a complete well-formed tool_call block somewhere in text: an opening tag,
\* a later closing tag, and between them a JSON object with a string name and
\* an object arguments
HasWellFormedBlock(text) ==
    LET marks == {i \in 1..Len(text) : text[i] = "<"}
    IN  \E i \in marks :
            /\ MatchAt(text, <<"<","t","o","o","l","_","c","a","l","l",">">>, i)
            /\ \E j \in marks :
                  /\ j >= i + 11
                  /\ MatchAt(text, <<"<","/","t","o","o","l","_","c","a","l","l",">">>, j)
                  /\ LET inner == FromStr(SubSeq(text, i + 11, j - 1))
                     IN  /\ inner.ok
                         /\ inner.val.t = "obj"
                         /\ MapGet(inner.val.m, <<"n","a","m","e">>).t = "str"
                         /\ MapGet(inner.val.m, <<"a","r","g","u","m","e","n","t","s">>).t = "obj"

\* C1: within a turn no two invocations have the same tool name and the same
\* canonical arguments JSON, and the signature of every invocation, the one
\* in flight included, is already in executed_tools
C1_AtMostOncePerSignature ==
    /\ \A i, j \in 1..Len(invocations) :
          (invocations[i].name = invocations[j].name
           /\ invocations[i].args = invocations[j].args) => i = j
    /\ \A i \in 1..Len(invocations) :
          (invocations[i].name \o <<":">> \o invocations[i].args) \in executed_tools

\* the buffer holds the same call in two blocks, scanned again after the
\* first was dispatched, and the turn ended with one invocation
C1_Witness ==
    /\ pc = "done"
    /\ Len(chunks) >= 2
    /\ Len(invocations) = 1
    /\ LET found == extract_all_tool_calls_from_xml(SubSeq(full_response, 1, scanned))
       IN  \E i, j \in 1..Len(found) : i < j /\ found[i] = found[j]

C3_NoToolCallPlainText ==
    pc = "done"
        => \/ /\ ContinuationStreams = 0
              /\ result.kind = "text"
              /\ result.text = StreamText
           \/ \E text \in {StreamText} : HasWellFormedBlock(text)

\* three chunks with tool_call markup, none of it a well-formed block
C3_Witness ==
    /\ pc = "done"
    /\ Len(chunks) = 3
    /\ \E k \in 1..3 : chunks[k].finish
    /\ Contains(StreamText, OpenTag)
    /\ Contains(StreamText, CloseTag)
    /\ ~HasWellFormedBlock(StreamText)
    /\ result.text = StreamText

\* C4: the streams a turn opens are the primary stream, once and first, and
\* then at most one continuation stream
C4_AtMostTwoStreams ==
    /\ streams \in {<< >>, <<"primary">>, <<"primary", "continuation">>}
    /\ pc # "assembling" => PrimaryStreams = 1

\* a turn whose primary stream broke and which opened its continuation
C4_Witness ==
    /\ pc = "done"
    /\ SinkKinds("chat-error") # {}
    /\ streams = <<"primary", "continuation">>

\* C5: every step leaves the old buffer as a prefix of the new one
C5_BufferAppendOnly == [][IsPrefix(full_response, full_response')]_vars

\* a turn that appended chunks, a tool_response block and continuation output
C5_Witness ==
    /\ pc = "done"
    /\ Len(outcomes) >= 1
    /\ ~TrimIsEmpty(continued_response)
    /\ SinkKinds("annotation") = {}
    /\ Len(full_response) > Len(StreamText) + Len(continued_response)

\* the block the dispatcher splices in for a result and for an error
ResultBlock(r) ==
    <<"\n","<","t","o","o","l","_","r","e","s","p","o","n","s","e",">","\n">> \o r
    \o <<"\n","<","/","t","o","o","l","_","r","e","s","p","o","n","s","e",">">>

ErrorBlock(m) ==
    <<"\n","<","t","o","o","l","_","r","e","s","p","o","n","s","e",">","\n","E","r","r","o","r",":"," ">> \o m
    \o <<"\n","<","/","t","o","o","l","_","r","e","s","p","o","n","s","e",">">>

\* the text of buffer that starts right after position at and is as long as
\* block, empty when the buffer ends before
SliceAfter(buffer, at, block) ==
    IF at + Len(block) <= Len(buffer) THEN SubSeq(buffer, at + 1, at + Len(block))
    ELSE << >>

\* the invocation that dispatched the call found in the scan
Dispatched(call) ==
    \E i \in 1..Len(invocations) :
        invocations[i].name = call.fn_name /\ invocations[i].args = call.fn_args

\* C6: whenever a chunk is taken from the primary stream the task is between
\* two runs of the loop body: no invocation is in flight or pending, every
\* invocation made so far has returned and its tool_response block stands in
\* the buffer where the call found it, and every call the scanner finds in the
\* buffer as it was when the last chunk was appended has been dispatched
C6_ResolvedBeforeNextChunk ==
    [][chunks' # chunks =>
          /\ pc = "streaming"
          /\ inflight = NoCall
          /\ tool_calls = << >>
          /\ Len(outcomes) = Len(invocations)
          /\ \A i \in 1..Len(invocations) :
                MatchAt(full_response,
                        <<"\n","<","t","o","o","l","_","r","e","s","p","o","n","s","e",">","\n">>,
                        invocations[i].at + 1)
          /\ LET found == extract_all_tool_calls_from_xml(SubSeq(full_response, 1, scanned))
             IN  \A n \in 1..Len(found) : Dispatched(found[n])]_vars

\* a chunk was taken after the calls an earlier chunk completed had returned
C6_Witness ==
    /\ Len(invocations) >= 2
    /\ Len(outcomes) = Len(invocations)
    /\ invocations[2].chunk < Len(chunks)
    /\ chunks[invocations[2].chunk].content.v = CallU2 \o CallT

\* C7: every tool-call event and every tool_response token event comes after
\* the raw token event of the chunk during which it was emitted
C7_RawTokenBeforeToolEvents ==
    \A j \in 1..Len(sink) :
        sink[j].kind \in {"tool-call", "response"} =>
            \E i \in 1..(j - 1) :
                /\ sink[i].ev = "chat-token"
                /\ sink[i].kind = "raw"
                /\ sink[i].chunk = sink[j].chunk
                /\ sink[i].token = chunks[sink[j].chunk].content.v
                /\ ~sink[i].finished

\* a chunk's raw token, then the tool-call event and the tool_response token
\* of a call that chunk completed
C7_Witness ==
    \E i, j, l \in 1..Len(sink) :
        /\ i < j /\ j < l
        /\ sink[i].kind = "raw"
        /\ sink[j].kind = "tool-call"
        /\ sink[l].kind = "response"
        /\ sink[i].chunk = sink[j].chunk
        /\ sink[i].chunk = sink[l].chunk

\* where a sink event stands in the order of a turn: the primary stream and
\* its tool calls, the continuation's tokens, the continuation's error
\* annotation, the completion signal
Phase(e) ==
    CASE e.kind \in {"raw", "tool-call", "response", "chat-error"} -> 1
      [] e.kind = "continuation" -> 2
      [] e.kind = "annotation" -> 3
      [] e.kind = "finished" -> 4

IsFinishedEvent(e) == e.ev = "chat-token" /\ e.finished

\* the place, among the calls found, of the first one with this name and
\* these arguments; 0 when there is none
FirstBlock(found, name, args) ==
    LET hits == {n \in 1..Len(found) :
                    found[n].fn_name = name /\ found[n].fn_args = args}
    IN  IF hits = {} THEN 0 ELSE CHOOSE n \in hits : \A m \in hits : n <= m

\* the raw tokens the sink was shown, in order
RECURSIVE RawTokens(_)
RawTokens(events) ==
    IF events = <<>> THEN <<>>
    ELSE (IF Head(events).kind = "raw" THEN Head(events).token ELSE <<>>)
         \o RawTokens(Tail(events))

\* C8: no completion signal is emitted before the turn ends; a turn that
\* returns text has shown the sink the events of the primary stream (raw
\* tokens in arrival order, the tool_responses in the order of the calls),
\* then the continuation's tokens, then the continuation's error annotation
\* if there is one, and last exactly one completion signal; and when the
\* primary stream has ended, the order of the calls is the order in which
\* their tool_call blocks stand in the buffer
C8_SinkOrder ==
    /\ pc # "done" => \A i \in 1..Len(sink) : ~IsFinishedEvent(sink[i])
    /\ pc = "done" =>
          /\ Len(sink) >= 1
          /\ \A i \in 1..Len(sink) : IsFinishedEvent(sink[i]) <=> i = Len(sink)
          /\ \A i, j \in 1..Len(sink) : i < j => Phase(sink[i]) <= Phase(sink[j])
          /\ RawTokens(sink) = StreamText
          /\ \A i, j \in SinkKinds("response") : i < j => sink[i].call < sink[j].call
    /\ pc = "stream_done" =>
          LET found == extract_all_tool_calls_from_xml(full_response)
              place == [k \in 1..Len(invocations) |->
                           FirstBlock(found, invocations[k].name, invocations[k].args)]
          IN  \A k \in 1..Len(invocations) :
                 /\ place[k] # 0
                 /\ k > 1 => place[k - 1] < place[k]

\* two calls completed by one chunk, their responses, continuation tokens and
\* the completion signal
C8_Witness ==
    /\ pc = "done"
    /\ SinkKinds("continuation") # {}
    /\ \E i, j \in SinkKinds("response") : i < j /\ sink[i].chunk = sink[j].chunk

\* C9: a failed invocation leaves its error block in the buffer, right where
\* the buffer ended when the call was made, and a token event with that text
\* in the sink; the turn has no hard error and goes on with the loop
C9_ToolErrorInline ==
    /\ [](\A i \in 1..Len(outcomes) :
            ~outcomes[i].ok =>
                LET block == ErrorBlock(outcomes[i].text)
                IN  /\ SliceAfter(full_response, invocations[i].at, block) = block
                    /\ \E j \in 1..Len(sink) :
                          /\ sink[j].ev = "chat-token"
                          /\ sink[j].token = block
                          /\ ~sink[j].finished
                          /\ sink[j].call = i
                    /\ result.kind # "hard_error"
                    /\ pc = "done" => result.kind = "text")
    /\ [][(Len(outcomes') > Len(outcomes) /\ ~outcomes'[Len(outcomes')].ok)
              => pc' \in {"streaming", "dispatch"}]_vars

\* after a failed invocation a later chunk was taken and scanned, its call
\* dispatched, and the turn returned text
C9_Witness ==
    /\ pc = "done"
    /\ result.kind = "text"
    /\ \E i, j \in 1..Len(outcomes) :
          /\ ~outcomes[i].ok
          /\ i < j
          /\ invocations[i].chunk < invocations[j].chunk

\* C10: a returned result leaves its block in the buffer, appended at the
\* end of the buffer, and is shown to the sink as one token event with
\* finished = false; there is one such event for each invocation that returned
C10_ToolResultSpliced ==
    /\ [](/\ \A i \in 1..Len(outcomes) :
               outcomes[i].ok =>
                   LET block == ResultBlock(outcomes[i].text)
                       shown == {j \in 1..Len(sink) :
                                    sink[j].kind = "response" /\ sink[j].call = i}
                   IN  /\ SliceAfter(full_response, invocations[i].at, block) = block
                       /\ Cardinality(shown) = 1
                       /\ \A j \in shown :
                             /\ sink[j].ev = "chat-token"
                             /\ sink[j].token = block
                             /\ ~sink[j].finished
          /\ Cardinality(SinkKinds("response")) = Len(outcomes)
          /\ Len(invocations) = Len(outcomes) + (IF pc = "calling" THEN 1 ELSE 0))
    /\ [][(Len(outcomes') > Len(outcomes) /\ outcomes'[Len(outcomes')].ok)
              => full_response' =
                    full_response \o ResultBlock(outcomes'[Len(outcomes')].text)]_vars

\* a turn in which two invocations returned results
C10_Witness ==
    /\ pc = "done"
    /\ \E i, j \in 1..Len(outcomes) :
          i < j /\ outcomes[i].ok /\ outcomes[j].ok /\ outcomes[i].text = Txt42

(***************************************************************************)
(* Properties of the scanner                                               *)
(***************************************************************************)
\* inner is a JSON object with a string name and an object arguments
WellFormedInner(inner) ==
    LET v == FromStr(inner)
    IN  /\ v.ok
        /\ v.val.t = "obj"
        /\ MapGet(v.val.m, <<"n","a","m","e">>).t = "str"
        /\ MapGet(v.val.m, <<"a","r","g","u","m","e","n","t","s">>).t = "obj"

IsOpenAt(text, i) == MatchAt(text, <<"<","t","o","o","l","_","c","a","l","l",">">>, i)

IsCloseAt(text, j) == MatchAt(text, <<"<","/","t","o","o","l","_","c","a","l","l",">">>, j)

\* the closing tags that end a well-formed block opened at i
BlockEnds(text, i) ==
    {j \in (i + 11)..Len(text) :
        IsCloseAt(text, j) /\ WellFormedInner(SubSeq(text, i + 11, j - 1))}

\* where the well-formed blocks of text open
BlockStarts(text) ==
    {i \in 1..Len(text) : IsOpenAt(text, i) /\ BlockEnds(text, i) # {}}

\* the n-th smallest member of a set of positions
NthOf(S, n) == CHOOSE i \in S : Cardinality({k \in S : k < i}) = n - 1

\* the name in the well-formed block opened at i
BlockName(text, i) ==
    LET j == CHOOSE e \in BlockEnds(text, i) : \A f \in BlockEnds(text, i) : e <= f
    IN  MapGet(FromStr(SubSeq(text, i + 11, j - 1)).val.m, <<"n","a","m","e">>).s

\* C11: the list returned for a text has one entry for each well-formed
\* tool_call block of the text, in the order in which the blocks open
C11_ExactlyNInDocumentOrder ==
    pc = "scan_output" =>
        LET starts == BlockStarts(full_response)
        IN  /\ Len(tool_calls) = Cardinality(starts)
            /\ \A n \in 1..Len(tool_calls) :
                  tool_calls[n].fn_name = BlockName(full_response, NthOf(starts, n))

\* every opening tag of text is followed by a closing tag
AllClosed(text) ==
    \A a \in 1..Len(text) :
        IsOpenAt(text, a) => \E b \in (a + 1)..Len(text) : IsCloseAt(text, b)

\* the regions the scan cannot miss: an opening tag at i before which every
\* opening tag is closed, and the first closing tag after it at j
IsRegion(text, i, j) ==
    /\ IsOpenAt(text, i)
    /\ IsCloseAt(text, j)
    /\ i < j
    /\ \A k \in i..(j - 1) : ~IsCloseAt(text, k)
    /\ AllClosed(SubSeq(text, 1, i - 1))

Regions(text) ==
    LET opens == {i \in 1..Len(text) : IsOpenAt(text, i)}
        closes == {j \in 1..Len(text) : IsCloseAt(text, j)}
    IN  {r \in opens \X closes : IsRegion(text, r[1], r[2])}

\* C12: a region whose inner text is no JSON object with a string name and an
\* object arguments adds nothing to the list, and the list goes on with what
\* the scan of the text after the region's closing tag returns
C12_MalformedRegionSkipped ==
    pc = "scan_output" =>
        \A r \in Regions(full_response) :
            ~WellFormedInner(SubSeq(full_response, r[1] + 11, r[2] - 1)) =>
                tool_calls =
                    extract_all_tool_calls_from_xml(SubSeq(full_response, 1, r[1] - 1))
                    \o extract_all_tool_calls_from_xml(
                           SubSeq(full_response, r[2] + 12, Len(full_response)))

\* a text of three blocks, the first well formed, the second not, and the
\* third extracted
C12_Witness ==
    /\ pc = "scan_output"
    /\ Len(chunks) = 3
    /\ Len(tool_calls) = 2
    /\ \E r \in Regions(full_response) :
          /\ r[1] > 1
          /\ ~WellFormedInner(SubSeq(full_response, r[1] + 11, r[2] - 1))
          /\ r[2] + 12 <= Len(full_response)

\* C20: has_incomplete_tool_call is true exactly when the text has an opening
\* tag and no closing tag stands at or after the last opening tag
C20_IncompleteIffLastOpenUnclosed ==
    pc = "scan_output" =>
        (warned <=>
            \E i \in 1..Len(full_response) :
                /\ IsOpenAt(full_response, i)
                /\ \A k \in (i + 1)..Len(full_response) : ~IsOpenAt(full_response, k)
                /\ \A j \in i..Len(full_response) : ~IsCloseAt(full_response, j))

\* a closed block and after it an opening tag that is never closed
C20_Witness ==
    /\ pc = "scan_output"
    /\ warned
    /\ Len(tool_calls) = 1
    /\ \E j \in 1..Len(full_response) : IsCloseAt(full_response, j)

(***************************************************************************)
(* Properties of the two streams                                           *)
(***************************************************************************)
FinishSeen == \E k \in 1..Len(chunks) : chunks[k].finish

\* C13: once a chunk of the primary stream has carried a finish reason, a
\* chunk taken from the stream changes neither the buffer nor the sink and is
\* not scanned
C13_StopsAtFinishedChunk ==
    [][(FinishSeen /\ chunks' # chunks) =>
          /\ full_response' = full_response
          /\ sink' = sink
          /\ scanned' = scanned
          /\ tool_calls' = tool_calls]_vars

\* the step that took the last chunk of cont_chunks' appended its text to the
\* continuation's text and showed it to the sink as one token event
ContinuationChunkAsText ==
    LET c == cont_chunks'[Len(cont_chunks')]
        text == IF c.content.some THEN c.content.v ELSE << >>
    IN  /\ continued_response' = continued_response \o text
        /\ c.content.some =>
              (/\ Len(sink') = Len(sink) + 1
               /\ sink'[Len(sink')].ev = "chat-token"
               /\ sink'[Len(sink')].token = text
               /\ ~sink'[Len(sink')].finished)
        /\ ~c.content.some => sink' = sink

\* C14: once the primary stream has ended nothing is dispatched: the
\* invocations, the signatures and the scan stay as they are and the task
\* never goes back to the dispatcher; each chunk of continuation output is
\* appended to the continuation's text and shown to the sink as it is
C14_NoDispatchInContinuation ==
    /\ [](pc \in {"stream_done", "continuing", "done"} =>
            (/\ inflight = NoCall
             /\ tool_calls = << >>
             /\ Len(outcomes) = Len(invocations)
             /\ executed_tools =
                   {invocations[i].name \o <<":">> \o invocations[i].args :
                       i \in 1..Len(invocations)}))
    /\ [][(pc \in {"stream_done", "continuing", "done"}) =>
            (/\ invocations' = invocations
             /\ executed_tools' = executed_tools
             /\ outcomes' = outcomes
             /\ scanned' = scanned
             /\ pc' \in {"stream_done", "continuing", "done"}
             /\ (cont_chunks' # cont_chunks => ContinuationChunkAsText))]_vars

\* a turn whose continuation output held a well-formed tool_call block for a
\* tool that the turn has not invoked
C14_Witness ==
    /\ pc = "done"
    /\ Len(invocations) >= 1
    /\ \A i \in 1..Len(invocations) : invocations[i].name # <<"v">>
    /\ HasWellFormedBlock(continued_response)
    /\ \E i \in 1..Len(sink) :
          sink[i].kind = "continuation" /\ HasWellFormedBlock(sink[i].token)

\* the tokens of the events of one kind, in order
RECURSIVE KindTokens(_, _)
KindTokens(events, kind) ==
    IF events = <<>> THEN <<>>
    ELSE (IF Head(events).kind = kind THEN Head(events).token ELSE <<>>)
         \o KindTokens(Tail(events), kind)

\* text with a character that is not white space
HasInk(text) == \E i \in 1..Len(text) : text[i] \notin {" ", "\n", "\t", "\r"}

\* the step in which a continuation stream ends and the turn returns with no
\* annotation: the completion signal is the one event of the step
ContinuationEndsOk ==
    /\ pc = "continuing"
    /\ pc' = "done"
    /\ Len(sink') = Len(sink) + 1

\* C15 as stated: a continuation that ends without a transport error returns
\* the pre-continuation buffer followed by all the continuation's delta_text,
\* whatever that text is
C15_ContinuationAlwaysAppended ==
    [][ContinuationEndsOk =>
          result'.text = full_response \o ConcatContents(cont_chunks)]_vars

\* C15 (amended): when a continuation ends without a transport error, the
\* sink has been shown all its delta_text in order, and the turn returns the
\* pre-continuation buffer followed by that text if it has a character that
\* is not white space, and the pre-continuation buffer alone if it has none
C15_ContinuationAppendedUnlessBlank ==
    [][ContinuationEndsOk =>
          (/\ result'.kind = "text"
           /\ KindTokens(sink', "continuation") = ConcatContents(cont_chunks)
           /\ result'.text =
                 IF HasInk(ConcatContents(cont_chunks))
                 THEN full_response \o ConcatContents(cont_chunks)
                 ELSE full_response)]_vars

\* a turn whose continuation delivered text and ended: the text was appended
C15_Witness ==
    /\ pc = "done"
    /\ streams = <<"primary", "continuation">>
    /\ SinkKinds("annotation") = {}
    /\ HasInk(ConcatContents(cont_chunks))
    /\ Len(result.text) > Len(ConcatContents(cont_chunks))

\* the step in which the continuation fails: its stream is not created, or
\* it yields an error
ContinuationFails ==
    \E err \in TransportErrors : ContinuationCreateErr(err) \/ ContError(err)

\* C16: the step in which the continuation fails appends an annotation
\* "\n\n[Continuation Error: ...]" that names the error to the buffer, shows
\* it to the sink as a token event followed by the completion signal, and
\* returns the annotated buffer as the turn's text
C16_ContinuationErrorAnnotated ==
    [][ContinuationFails =>
          LET lead == <<"\n","\n","[","C","o","n","t","i","n","u","a","t","i","o","n"," ","E","r","r","o","r",":"," ">>
              note == SubSeq(result'.text, Len(full_response) + 1, Len(result'.text))
          IN  /\ pc' = "done"
              /\ result'.kind = "text"
              /\ IsPrefix(full_response, result'.text)
              /\ result'.text = full_response'
              /\ IsPrefix(lead, note)
              /\ \E err \in TransportErrors :
                    SubSeq(note, Len(note) - Len(err), Len(note)) = err \o <<"]">>
              /\ Len(sink') = Len(sink) + 2
              /\ SubSeq(sink', 1, Len(sink)) = sink
              /\ sink'[Len(sink) + 1].ev = "chat-token"
              /\ sink'[Len(sink) + 1].token = note
              /\ ~sink'[Len(sink) + 1].finished
              /\ sink'[Len(sink) + 2].ev = "chat-token"
              /\ sink'[Len(sink) + 2].token = << >>
              /\ sink'[Len(sink) + 2].finished]_vars

\* a turn whose continuation broke after it had delivered text
C16_Witness ==
    /\ pc = "done"
    /\ SinkKinds("annotation") # {}
    /\ HasInk(continued_response)
    /\ result.kind = "text"

\* C17: a turn returns an error only when create_stream fails for the primary
\* request, before any chunk, event or invocation; every other turn that
\* returns, returns text that starts with the buffer as it was, and no step
\* takes an event back from the sink
C17_HardErrorOnlyBeforePrimary ==
    /\ [](/\ result.kind = "hard_error" <=> pc = "failed"
          /\ pc = "failed" =>
                (/\ streams = <<"primary">>
                 /\ chunks = << >>
                 /\ sink = << >>
                 /\ invocations = << >>)
          /\ pc \notin {"assembling", "failed"} => PrimaryStreams = 1
          /\ pc = "done" => (result.kind = "text" /\ result.text = full_response))
    /\ [][/\ IsPrefix(sink, sink')
          /\ (pc # "done" /\ pc' = "done") =>
                (result'.kind = "text" /\ IsPrefix(full_response, result'.text))]_vars

\* a turn with a failed invocation, a broken primary stream and a broken
\* continuation, which returned text
C17_Witness ==
    /\ pc = "done"
    /\ result.kind = "text"
    /\ \E i \in 1..Len(outcomes) : ~outcomes[i].ok
    /\ SinkKinds("chat-error") # {}
    /\ SinkKinds("annotation") # {}
    /\ cont_chunks # << >>

\* the state of the turn's state machine the task is in
TurnState(p) ==
    CASE p = "assembling" -> "ASSEMBLING"
      [] p \in {"streaming", "dispatch", "calling"} -> "STREAMING"
      [] p = "stream_done" -> "STREAM_DONE"
      [] p = "continuing" -> "CONTINUING"
      [] p = "done" -> "DONE"
      [] p = "failed" -> "ERROR"

\* C18: the turn's state changes only along ASSEMBLING -> STREAMING ->
\* STREAM_DONE -> CONTINUING -> DONE or STREAM_DONE -> DONE (a turn whose
\* primary stream is not created ends in ASSEMBLING with the error); an
\* invocation starts and returns only in STREAMING; CONTINUING is entered
\* only when a tool was called and the buffer holds a tool_response; nothing
\* changes once the turn is DONE
C18_TurnStateMachine ==
    [][/\ TurnState(pc') # TurnState(pc) =>
             <<TurnState(pc), TurnState(pc')>> \in
                 { <<"ASSEMBLING", "STREAMING">>, <<"ASSEMBLING", "ERROR">>,
                   <<"STREAMING", "STREAM_DONE">>, <<"STREAM_DONE", "CONTINUING">>,
                   <<"STREAM_DONE", "DONE">>, <<"CONTINUING", "DONE">> }
       /\ (invocations' # invocations \/ outcomes' # outcomes) =>
             (TurnState(pc) = "STREAMING" /\ TurnState(pc') = "STREAMING")
       /\ (pc # "continuing" /\ pc' = "continuing") =>
             (/\ pc = "stream_done"
              /\ needs_continuation
              /\ Len(outcomes) >= 1
              /\ \E i \in 1..Len(full_response) :
                    MatchAt(full_response,
                            <<"<","t","o","o","l","_","r","e","s","p","o","n","s","e",">">>, i))
       /\ pc \in {"done", "failed"} => vars' = vars]_vars

\* a turn that went through every state: chunks, two invocations, the end of
\* the primary stream, a continuation chunk, and the return
C18_Witness ==
    /\ pc = "done"
    /\ Len(chunks) >= 2
    /\ Len(outcomes) = 2
    /\ SinkKinds("chat-error") = {}
    /\ Len(cont_chunks) = 1
    /\ SinkKinds("annotation") = {}

(***************************************************************************)
(* Properties of the requests                                              *)
(***************************************************************************)
\* the messages of ms whose role is not system, in order
RECURSIVE NonSystem(_)
NonSystem(ms) ==
    IF ms = <<>> THEN <<>>
    ELSE (IF Head(ms).role # "system" THEN <<Head(ms)>> ELSE <<>>) \o NonSystem(Tail(ms))

\* C19: the continuation request, when there is one, is the second request
\* of the turn; its messages are the system message of the primary request,
\* then the primary request's other messages in order, then one assistant
\* message whose text is the buffer as the primary stream left it; until the
\* continuation has run that buffer is the turn buffer
C19_ContinuationRequest ==
    /\ Len(requests) = Len(streams)
    /\ Len(requests) >= 2 =>
          LET first == requests[1]
              second == requests[2]
              last == second[Len(second)]
          IN  /\ first[1].role = "system"
              /\ second[1] = first[1]
              /\ Len(second) = Len(first) + 1
              /\ SubSeq(second, 2, Len(second) - 1) = NonSystem(first)
              /\ last.role = "assistant"
              /\ pc = "continuing" => last.content = full_response
              /\ IsPrefix(last.content, full_response)
              /\ \A i \in 1..Len(outcomes) :
                    LET block == IF outcomes[i].ok THEN ResultBlock(outcomes[i].text)
                                 ELSE ErrorBlock(outcomes[i].text)
                    IN  SliceAfter(last.content, invocations[i].at, block) = block
              /\ IsPrefix(chunks[1].content.v, last.content)

\* a continuation request that carries history, after text, a call that
\* failed and more text
C19_Witness ==
    /\ pc = "continuing"
    /\ Len(requests) = 2
    /\ Len(requests[1]) >= 4
    /\ Len(outcomes) = 1
    /\ ~outcomes[1].ok
    /\ Len(chunks) = 3
    /\ invocations[1].chunk = 2

\* the stored messages whose role is user or assistant, in stored order
Conversation(stored) ==
    LET Spoken(m) == m.role \in {"user", "assistant"}
    IN  SelectSeq(stored, Spoken)

\* C21: the first request of a turn is the system message, then, if history
\* is asked for, a session id is given and the session is found, the
\* session's user and assistant messages in stored order, without the last
\* of them exactly when it is a user message with the text of the input, and
\* last the input as one user message; otherwise the system message and the
\* input alone
C21_PrimaryRequest ==
    Len(requests) >= 1 =>
        LET list == requests[1]
            middle == SubSeq(list, 2, Len(list) - 1)
            wanted == /\ input.include_history = [some |-> TRUE, v |-> TRUE]
                      /\ input.session_id.some
                      /\ input.stored.ok
            told == Conversation(input.stored.v)
            repeated == /\ told # << >>
                        /\ told[Len(told)].role = "user"
                        /\ told[Len(told)].content = input.message
        IN  /\ Len(list) >= 2
            /\ list[1].role = "system"
            /\ list[1].content =
                  (IF input.system_prompt.some THEN input.system_prompt.v
                   ELSE <<"Y","o","u">>) \o input.tools_info
            /\ list[Len(list)] = [role |-> "user", content |-> input.message]
            /\ ~wanted => middle = << >>
            /\ (wanted /\ repeated) => middle = SubSeq(told, 1, Len(told) - 1)
            /\ (wanted /\ ~repeated) => middle = told

\* a request made from a session with a system entry that ends with the
\* input: the entry and the repeated input are left out
C21_Witness ==
    /\ Len(requests) >= 1
    /\ input.stored.ok
    /\ Len(input.stored.v) = 3
    /\ Len(requests[1]) = 3
    /\ requests[1][2].role = "assistant"

(***************************************************************************)
(* Properties of the dispatch step                                         *)
(***************************************************************************)
\* the members of the arguments object the scanner extracted for invocation i
ExtractedMembers(i) == FromStr(invocations[i].args).val.m

\* C23: every arguments map handed to call_mcp_tool has no member whose value
\* is null, and every member of the extracted arguments whose value is not
\* null is in the map with the same value
C23_NullKeysRemoved ==
    \A i \in 1..Len(invocations) :
        LET passed == invocations[i].map
            extracted == ExtractedMembers(i)
        IN  /\ passed.some
            /\ \A j \in 1..Len(passed.v) : passed.v[j].v.t # "null"
            /\ \A j \in 1..Len(extracted) :
                   extracted[j].v.t # "null" =>
                       MapGet(passed.v, extracted[j].k) = extracted[j].v

\* a call was dispatched whose extracted arguments hold a null member and a
\* member that is not null
C23_Witness ==
    \E i \in 1..Len(invocations) :
        /\ MapGet(ExtractedMembers(i), <<"a">>) = [t |-> "null"]
        /\ MapGet(ExtractedMembers(i), <<"b">>) = [t |-> "num", s |-> <<"1">>]
        /\ invocations[i].map = Some(<<[k |-> <<"b">>, v |-> [t |-> "num", s |-> <<"1">>]]>>)

\* the calls the scanner finds in the text the primary stream delivered
StreamCalls == extract_all_tool_calls_from_xml(StreamText)

C28_OncePerEffectiveRequest ==
    \A i, j \in 1..Len(invocations) :
        (/\ invocations[i].name = invocations[j].name
         /\ invocations[i].map = invocations[j].map) => i = j

(***************************************************************************)
(* Properties of the returned text                                         *)
(***************************************************************************)
\* the token fields of the chat-token events of a sink, put together in
\* emission order
RECURSIVE ShownText(_)
ShownText(events) ==
    IF events = <<>> THEN <<>>
    ELSE (IF Head(events).ev = "chat-token" THEN Head(events).token ELSE <<>>)
         \o ShownText(Tail(events))

\* C27: a turn that returns text returns what the sink was shown
C27_ReturnedIsShown ==
    result.kind = "text" => result.text = ShownText(sink)

(***************************************************************************)
(* Dispatch and the way the text is split into chunks                      *)
(***************************************************************************)
\* the calls of a list without those whose signature an earlier one has
RECURSIVE FirstOfEachSignature(_, _)
FirstOfEachSignature(calls, seen) ==
    IF calls = <<>> THEN <<>>
    ELSE LET sig == ToolSignature(Head(calls).fn_name, Head(calls).fn_args)
         IN  IF sig \in seen THEN FirstOfEachSignature(Tail(calls), seen)
             ELSE <<Head(calls)>> \o FirstOfEachSignature(Tail(calls), seen \cup {sig})

\* the names and arguments of the invocations so far, in order
DispatchedCalls ==
    [i \in 1..Len(invocations) |->
        [fn_name |-> invocations[i].name, fn_args |-> invocations[i].args]]

\* C25: once the primary stream has ended, the invocations are those of the
\* same text delivered in one chunk, which are the calls of the text, each
\* signature once, in document order: the split makes no difference
C25_DispatchIgnoresSplit ==
    pc = "stream_done" /\ chunks # <<>> =>
        DispatchedCalls = FirstOfEachSignature(StreamCalls, {})

\* the text delivered in one chunk is dispatched as C25 says
C25_WholeTextReference ==
    pc = "stream_done" /\ Len(chunks) = 1 =>
        DispatchedCalls = FirstOfEachSignature(StreamCalls, {})

(***************************************************************************)
(* Termination of the turn                                                 *)
(***************************************************************************)
\* the completion signal was emitted and Ok(full_response) returned
TurnReturned ==
    /\ pc = "done"
    /\ result.kind = "text"
    /\ sink # <<>>
    /\ IsFinishedEvent(sink[Len(sink)])

\* a position of the task from which it goes on: it awaits the next item of
\* a stream or the return of a tool, or it can run
Running == pc \in {"streaming", "dispatch", "calling", "stream_done", "continuing"}

\* C30: a turn whose primary stream was established never stops short of
\* DONE: wherever it is, it is still under way or it has emitted the
\* completion signal and returned
C30_RunningOrReturned ==
    Len(streams) >= 1 /\ pc # "failed" => Running \/ TurnReturned

(***************************************************************************)
(* Properties of load_model and unload_model                               *)
(***************************************************************************)
\* the i-th call that returned was a load_model, an unload_model, that
\* returned Ok
LoadSucceeded(i) == model_log[i].op = "load" /\ model_log[i].ok

UnloadSucceeded(i) == model_log[i].op = "unload" /\ model_log[i].ok

\* C24: of the calls that returned, no two load_model calls succeeded without
\* an unload_model call that succeeded between them
C24_OneModelAtATime ==
    \A i, j \in 1..Len(model_log) :
        (i < j /\ LoadSucceeded(i) /\ LoadSucceeded(j)) =>
            \E k \in (i + 1)..(j - 1) : UnloadSucceeded(k)

(***************************************************************************)
(* Properties of the MCP commands                                          *)
(***************************************************************************)
\* every command has returned
McpQuiet == \A t \in Tasks : mcp_task[t] = Idle

\* the returned commands that connected server s, that disconnected it
Connects(s) ==
    {i \in 1..Len(mcp_log) :
        mcp_log[i].command = "connect" /\ mcp_log[i].server = s /\ mcp_log[i].ok}

Disconnects(s) ==
    {i \in 1..Len(mcp_log) :
        mcp_log[i].command = "disconnect" /\ mcp_log[i].server = s /\ mcp_log[i].ok}

\* the manager in the slot has a client for s
Connected(s) == manager.some /\ s \in manager.v

\* C29: once every command has returned, a server that was connected and
\* never disconnected is a client of the manager in the slot, and a server
\* whose disconnect returned Ok after every connect of it is not
C29_PutBackKeepsClients ==
    McpQuiet =>
        \A s \in Servers :
            /\ (Connects(s) # {} /\ Disconnects(s) = {}) => Connected(s)
            /\ (/\ Disconnects(s) # {}
                /\ \A i \in Connects(s) : \E j \in Disconnects(s) : i < j)
               => ~Connected(s)

====
